---- MODULE Spec2Model ----
(***************************************************************************)
(* Model of the filtering cog (bot/exts/filtering/filtering.py), of the    *)
(* InfractionAndNotification settings entry                                *)
(* (bot/exts/filtering/_settings_types/infraction_and_notification.py)     *)
(* and of the FilterContext (bot/exts/filtering/_filter_context.py).       *)
(*                                                                         *)
(* Python values are tagged records [t, s, n]: t is the Python type, s the *)
(* text of a str (or the name of an exception / enum member), n the number *)
(* of a float.  A call that raises yields a value tagged "raise".          *)
(***************************************************************************)
EXTENDS Integers, Sequences, FiniteSets, TLC

(* ---------------------------- bounds ----------------------------------- *)
MaxDuration == 1      \* durations are None or 0..MaxDuration seconds
MaxRaw == 2           \* length of the raw filter-list sequence of init_cog

(* ------------------------- Python values -------------------------------- *)
PyNone == [t |-> "None", s |-> "", n |-> 0]
PyStr(x) == [t |-> "str", s |-> x, n |-> 0]
PyFloat(k) == [t |-> "float", s |-> "", n |-> k]
PyEnum(name) == [t |-> "Infraction", s |-> name, n |-> 0]
PyRaise(exc) == [t |-> "raise", s |-> exc, n |-> 0]

IsRaise(v) == v.t = "raise"

\* Python truth value of a str, float, None or Infraction (Infraction.__bool__).
Truthy(v) ==
    CASE v.t = "None" -> FALSE
      [] v.t = "str" -> v.s # ""
      [] v.t = "float" -> v.n # 0
      [] v.t = "Infraction" -> v.s # "NONE"
      [] OTHER -> TRUE

\* The bullet character U+2022 of _merge_messages, written in ASCII.
Bullet == "*"

\* str.startswith for a one-character prefix.
startswith(str, prefix) == Len(str) >= 1 /\ SubSeq(str, 1, 1) = prefix

(* --------------------------- Infraction --------------------------------- *)
InfractionNames ==
    <<"BAN", "KICK", "MUTE", "VOICE_BAN", "WARNING", "WATCH", "SUPERSTAR", "NOTE", "NONE">>

\* enum.auto(): the value of a member is its 1-based position.
InfractionValue(name) == CHOOSE i \in 1..Len(InfractionNames) : InfractionNames[i] = name

IsInfractionName(x) == \E i \in 1..Len(InfractionNames) : InfractionNames[i] = x

\* str.replace(" ", "_").upper() on the type strings of the rule configuration.
NormaliseTypeName(x) ==
    CASE x = "ban" -> "BAN"
      [] x = "kick" -> "KICK"
      [] x = "mute" -> "MUTE"
      [] x = "voice ban" -> "VOICE_BAN"
      [] x = "voice_ban" -> "VOICE_BAN"
      [] x = "warning" -> "WARNING"
      [] x = "watch" -> "WATCH"
      [] x = "superstar" -> "SUPERSTAR"
      [] x = "note" -> "NOTE"
      [] x = "none" -> "NONE"
      [] OTHER -> x

(* --------------------- message / duration merge ------------------------- *)
\* _merge_messages with a bullet put before every message.
MergeMessagesAlwaysBulleted(message1, message2) ==
    IF ~Truthy(message1) /\ ~Truthy(message2) THEN PyStr("")
    ELSE IF ~Truthy(message1) \/ message1 = message2 THEN message2
    ELSE IF ~Truthy(message2) THEN message1
    ELSE IF message1.t # "str" \/ message2.t # "str" THEN PyRaise("AttributeError")
    ELSE PyStr(Bullet \o " " \o message1.s \o "\n\n" \o Bullet \o " " \o message2.s)

_merge_messages(message1, message2) ==
    IF ~Truthy(message1) /\ ~Truthy(message2) THEN PyStr("")
    ELSE IF ~Truthy(message1) \/ message1 = message2 THEN message2
    ELSE IF ~Truthy(message2) THEN message1
    ELSE IF message1.t # "str" \/ message2.t # "str" THEN PyRaise("AttributeError")
    ELSE LET m1 == IF ~startswith(message1.s, Bullet) THEN Bullet \o " " \o message1.s
                   ELSE message1.s
             m2 == IF ~startswith(message2.s, Bullet) THEN Bullet \o " " \o message2.s
                   ELSE message2.s
         IN  PyStr(m1 \o "\n\n" \o m2)

_merge_durations(duration1, duration2) ==
    IF duration1.t = "None" \/ duration2.t = "None" THEN PyNone
    ELSE IF duration1.t # "float" \/ duration2.t # "float" THEN PyRaise("TypeError")
    ELSE IF duration1.n >= duration2.n THEN duration1 ELSE duration2

(* ------------------- InfractionAndNotification -------------------------- *)
\* The value of _superstar: None, or the tuple (reason, duration).
NoSuperstar == [present |-> FALSE, reason |-> PyNone, duration |-> PyNone]
SuperstarTuple(reason, duration) == [present |-> TRUE, reason |-> reason, duration |-> duration]

\* The attributes of an InfractionAndNotification instance.
Entry(type, reason, duration, dm_content, dm_embed, superstar) ==
    [infraction_type |-> type, infraction_reason |-> reason, infraction_duration |-> duration,
     dm_content |-> dm_content, dm_embed |-> dm_embed, _superstar |-> superstar]

NoEntry == Entry("NONE", PyNone, PyNone, PyNone, PyNone, NoSuperstar)

\* A return that always hands out a new instance.
ReturnedAsNew(entry, which) == [exc |-> "", val |-> entry, is |-> "new"]

\* Outcome of a call that returns an entry: the entry, whether it is one of
\* the operands ("self", "other") or a new instance, or the exception raised.
Returned(entry, which) == [exc |-> "", val |-> entry, is |-> which]
Raised(exc) == [exc |-> exc, val |-> NoEntry, is |-> "none"]

\* InfractionAndNotification.__init__: builds the instance from entry_data,
\* whose "infraction_type" is a str, None, or (from __or__) an Infraction.
InfractionAndNotification(entry_data) ==
    LET ty == entry_data.infraction_type
        name == NormaliseTypeName(ty.s)
    IN  IF Truthy(ty) /\ ty.t # "str" THEN Raised("AttributeError")
        ELSE IF Truthy(ty) /\ ~IsInfractionName(name) THEN Raised("KeyError")
        ELSE Returned(
                Entry(IF Truthy(ty) THEN name ELSE "NONE",
                      entry_data.infraction_reason,
                      IF entry_data.infraction_duration.t # "None"
                          THEN PyFloat(entry_data.infraction_duration.n) ELSE PyNone,
                      entry_data.dm_content,
                      entry_data.dm_embed,
                      entry_data.superstar),
                "new")

\* ActionEntry.to_dict: the dictionary representation of the entry, in the
\* form __init__ reads (the type by name), without the "superstar" key.
to_dict(entry) ==
    [infraction_type |-> PyStr(entry.infraction_type),
     infraction_reason |-> entry.infraction_reason,
     infraction_duration |-> entry.infraction_duration,
     dm_content |-> entry.dm_content,
     dm_embed |-> entry.dm_embed,
     superstar |-> NoSuperstar]

\* The first exception among the values of a sequence, "" when none raised.
FirstRaise(vals) ==
    IF \E i \in 1..Len(vals) : IsRaise(vals[i])
    THEN vals[CHOOSE i \in 1..Len(vals) :
                 IsRaise(vals[i]) /\ \A j \in 1..(i - 1) : ~IsRaise(vals[j])].s
    ELSE ""

\* __or__, the branch "two different infractions, one of them a superstarify".
OrSuperstar(self, other) ==
    LET superstar == IF self.infraction_type = "SUPERSTAR" THEN self._superstar
                     ELSE other._superstar
        other_superstar == IF self._superstar.present THEN self._superstar
                           ELSE other._superstar
        other_type == IF self.infraction_type # "SUPERSTAR" THEN self ELSE other
        entry_data == to_dict(other_type)
    IN  IF other_superstar.present
        THEN IF ~superstar.present THEN Raised("TypeError")
             ELSE LET reason == _merge_messages(superstar.reason, other_superstar.reason)
                      duration == _merge_durations(superstar.duration, other_superstar.duration)
                  IN  IF FirstRaise(<<reason, duration>>) # ""
                      THEN Raised(FirstRaise(<<reason, duration>>))
                      ELSE InfractionAndNotification(
                              [entry_data EXCEPT !.superstar = SuperstarTuple(reason, duration)])
        ELSE Raised("AttributeError")

\* __or__, the branch of equal types and of different non-superstar types.
OrPrimary(self, other) ==
    LET differ == self.infraction_type # other.infraction_type
        swap == InfractionValue(self.infraction_type) > InfractionValue(other.infraction_type)
        higher == IF swap THEN other ELSE self
        type == IF differ THEN PyStr(higher.infraction_type)
                ELSE PyEnum(self.infraction_type)
        duration == IF differ THEN higher.infraction_duration
                    ELSE _merge_durations(self.infraction_duration, other.infraction_duration)
        reason == _merge_messages(self.infraction_reason, other.infraction_reason)
        dm_content == _merge_messages(self.dm_content, other.dm_content)
        dm_embed == _merge_messages(self.dm_embed, other.dm_embed)
        ss_reason == IF self._superstar.present /\ other._superstar.present
                     THEN _merge_messages(self._superstar.reason, other._superstar.duration)
                     ELSE PyNone
        ss_duration == IF self._superstar.present /\ other._superstar.present
                       THEN _merge_durations(self._superstar.duration, other._superstar.duration)
                       ELSE PyNone
        superstar == IF ~self._superstar.present THEN other._superstar
                     ELSE IF ~other._superstar.present THEN self._superstar
                     ELSE SuperstarTuple(ss_reason, ss_duration)
        raised == FirstRaise(<<duration, reason, dm_content, dm_embed, ss_reason, ss_duration>>)
    IN  IF raised # "" THEN Raised(raised)
        ELSE InfractionAndNotification(
                [infraction_type |-> type, infraction_reason |-> reason,
                 infraction_duration |-> duration, dm_content |-> dm_content,
                 dm_embed |-> dm_embed, superstar |-> superstar])

\* __or__ without the early return for an `other` of type NONE.
OrWithoutOtherNone(self, other) ==
    IF self.infraction_type = "NONE" THEN Returned(other, "other")
    ELSE IF self.infraction_type # other.infraction_type
            /\ (self.infraction_type = "SUPERSTAR" \/ other.infraction_type = "SUPERSTAR")
         THEN OrSuperstar(self, other)
         ELSE OrPrimary(self, other)

\* InfractionAndNotification.__or__(self, other).
__or__(self, other) ==
    IF self.infraction_type = "NONE" THEN Returned(other, "other")
    ELSE IF other.infraction_type = "NONE" THEN Returned(self, "self")
    ELSE IF self.infraction_type # other.infraction_type
            /\ (self.infraction_type = "SUPERSTAR" \/ other.infraction_type = "SUPERSTAR")
         THEN OrSuperstar(self, other)
         ELSE OrPrimary(self, other)

\* combine applied to the outcome of an earlier combine (functools.reduce):
\* an exception of the earlier call propagates.
OrResult(left, right) ==
    IF left.exc # "" THEN left
    ELSE IF right.exc # "" THEN right
    ELSE __or__(left.val, right.val)

(* ------------------- inputs of the merge checks ------------------------- *)
Durations == {PyNone} \cup {PyFloat(k) : k \in 0..MaxDuration}
Reasons == {PyStr(""), PyStr("a"), PyStr("b")}
\* (dm_content, dm_embed) of a rule's configuration
Notifications == {PyStr(""), PyStr("x")} \X {PyStr(""), PyStr("y")}
Superstars == {NoSuperstar, SuperstarTuple(PyStr("s"), PyFloat(1))}
ConfigTypes == {PyNone, PyStr("ban"), PyStr("kick"), PyStr("mute"), PyStr("voice ban"),
                PyStr("warning"), PyStr("watch"), PyStr("superstar"), PyStr("note")}
\* the types of the three-operand check
AssocTypes == {PyNone, PyStr("ban"), PyStr("kick"), PyStr("warning"), PyStr("note")}

EntryData(types, notifications, superstars) ==
    {[infraction_type |-> ty, infraction_reason |-> r, infraction_duration |-> d,
      dm_content |-> dm[1], dm_embed |-> dm[2], superstar |-> ss] :
        ty \in types, r \in Reasons, d \in Durations, dm \in notifications, ss \in superstars}

\* Entries as the rule configuration constructs them.
Entries == {InfractionAndNotification(d).val : d \in EntryData(ConfigTypes, Notifications, Superstars)}
PlainEntries ==
    {InfractionAndNotification(d).val :
        d \in EntryData(AssocTypes, {<<PyStr(""), PyStr("")>>}, {NoSuperstar})}

(* ------------------------- the filtering cog ---------------------------- *)
Events == {"MESSAGE", "MESSAGE_EDIT"}

\* The names that have a class in filter_list_types.
FilterListTypes == {"token", "domain"}
\* The names of the raw filter lists the API returns.
RawNames == FilterListTypes \cup {"bogus"}

RECURSIVE SeqsUpTo(_, _)
SeqsUpTo(S, k) ==
    IF k = 0 THEN {<<>>}
    ELSE LET shorter == SeqsUpTo(S, k - 1)
         IN  shorter \cup {Append(q, x) : q \in shorter, x \in S}

\* A rule: its id, content, description and actions.
Filter(id, content, description, actions) ==
    [id |-> id, content |-> content, description |-> description, actions |-> actions]

\* The rules loaded into each filter list.
FiltersOf(list_name) ==
    IF list_name = "token"
    THEN <<Filter(1, "tok", "",
              InfractionAndNotification(
                  [infraction_type |-> PyStr("mute"), infraction_reason |-> PyStr("a"),
                   infraction_duration |-> PyFloat(1), dm_content |-> PyStr(""),
                   dm_embed |-> PyStr(""), superstar |-> NoSuperstar]).val),
           Filter(2, "ken", "leak",
              InfractionAndNotification(
                  [infraction_type |-> PyNone, infraction_reason |-> PyStr(""),
                   infraction_duration |-> PyNone, dm_content |-> PyStr(""),
                   dm_embed |-> PyStr("y"),
                   superstar |-> SuperstarTuple(PyStr("s"), PyFloat(1))]).val)>>
    ELSE <<Filter(3, "dom", "",
              InfractionAndNotification(
                  [infraction_type |-> PyStr("ban"), infraction_reason |-> PyStr("b"),
                   infraction_duration |-> PyNone, dm_content |-> PyStr("x"),
                   dm_embed |-> PyStr(""), superstar |-> NoSuperstar]).val),
           Filter(4, "ain", "",
              InfractionAndNotification(
                  [infraction_type |-> PyStr("warning"), infraction_reason |-> PyStr("a"),
                   infraction_duration |-> PyFloat(1), dm_content |-> PyStr("x"),
                   dm_embed |-> PyStr("y"),
                   superstar |-> SuperstarTuple(PyStr("s"), PyFloat(1))]).val)>>

\* The possible results of triggers_for: the matched rules of a list, in order.
TriggersFor(list_name) ==
    LET fs == FiltersOf(list_name)
    IN  {<<>>, <<fs[1]>>, <<fs[2]>>, fs}

\* FilterContext(Event.MESSAGE, msg.author, msg.channel, ...) with its defaults.
FilterContext(event, guild, content) ==
    [event |-> event, guild |-> guild, content |-> content,
     dm_content |-> PyStr(""), dm_embed |-> PyNone,
     send_alert |-> TRUE, action_descriptions |-> <<>>]

NoContext == FilterContext("", FALSE, "")
NoMessage == [author_bot |-> FALSE, guild |-> FALSE, content |-> ""]
NoException == [at |-> "", exc |-> ""]

\* A request made to the platform.
Request(op, target, name, content, embed, duration, reason, outcome) ==
    [op |-> op, target |-> target, name |-> name, content |-> content, embed |-> embed,
     duration |-> duration, reason |-> reason, outcome |-> outcome]

Mention == "@user"

\* The content of the messages.
Contents == {"a*b"}

(* --------------------------- the thread bumper -------------------------- *)
\* The number of threads.
MaxThreads == 2

ThreadIds == 1..MaxThreads

\* Thread.auto_archive_duration, in minutes.
AutoArchiveDurations == {60}

\* The seconds from the last message of a thread to its archive timestamp:
\* around the auto-archive duration, and the second that duration / 60 is.
Gaps(auto_archive_duration) ==
    {auto_archive_duration \div 60,
     auto_archive_duration * 60 - 59,
     auto_archive_duration * 60,
     auto_archive_duration * 60 + 61}

\* A thread of the guild: whether it exists, whether get_channel finds it in
\* the cache, its archived flag and auto_archive_duration, the seconds from
\* its last message to its archive_timestamp, and whether it has a message.
Thread(exists, cached, archived, auto_archive_duration, gap, has_message) ==
    [exists |-> exists, cached |-> cached, archived |-> archived,
     auto_archive_duration |-> auto_archive_duration, gap |-> gap,
     has_message |-> has_message]

DeletedThread == Thread(FALSE, FALSE, FALSE, 0, 0, FALSE)

LiveThreads ==
    {Thread(TRUE, cached, FALSE, d, 0, TRUE) : cached \in BOOLEAN, d \in AutoArchiveDurations}
    \cup UNION {{Thread(TRUE, cached, TRUE, d, gap, TRUE) : cached \in BOOLEAN, gap \in Gaps(d)}
                   : d \in AutoArchiveDurations}
    \cup {Thread(TRUE, FALSE, TRUE, d, d * 60, FALSE) : d \in AutoArchiveDurations}

ThreadStates == {DeletedThread} \cup LiveThreads

\* No call of unarchive_if_not_manually_archived ended.
NoCall == [thread_id |-> 0, thread |-> DeletedThread, listed |-> FALSE]

\* No on_thread_update under way.
NoUpdate == [pc |-> "idle", thread_id |-> 0, after |-> DeletedThread, exc |-> ""]

(* ------------------------------ state ----------------------------------- *)
VARIABLES
    threads,         \* the threads of the guild, by id
    threads_to_bump, \* ThreadBumper.threads_to_bump: the ids, in order
    bump_pc,         \* position of ensure_bumped_threads_are_active
    pending,         \* the ids its loop has still to visit
    bump_thread_id,  \* its thread_id
    bump_exception,  \* the exception that ended it
    unarchive_call,  \* the call of unarchive_if_not_manually_archived that just ended, by
                     \* return or by exception: its thread, and whether the id was in
                     \* threads_to_bump before its last await
    thread_update,   \* the on_thread_update under way: its position, thread and exception
    opA, opB, opC,   \* operands of the merge
    merged,          \* outcomes of the merges of the operands
    mpc,             \* "start", "combined", "associated"
    message1, message2, \* arguments of _merge_messages
    merged_message,  \* what _merge_messages returned
    raw_filter_lists, \* init_cog's raw_filter_lists: the names the API returned
    filter_lists,    \* Filtering.filter_lists: the names registered
    added,           \* the names passed to add_list, in order
    already_warned,  \* init_cog's already_warned
    log,             \* the records logged: <<level, text>>
    init_pc,         \* position of init_cog
    webhook,         \* Filtering.webhook: "None" or "webhook"
    _subscriptions,  \* Filtering._subscriptions: event -> sequence of filter lists
    pc,              \* position of on_message
    msg,             \* the message of the current dispatch
    ctx,             \* its FilterContext
    triggered,       \* on_message's triggered: sequence of <<filter list, matched rules>>
    result_actions,  \* the reduced action
    effects,         \* the requests the current dispatch made to the platform
    alerts,          \* the alerts the current dispatch sent to the webhook
    exception        \* the exception that ended the current dispatch

mergeVars == <<opA, opB, opC, merged, mpc, message1, message2, merged_message>>
initVars == <<raw_filter_lists, filter_lists, added, already_warned, log, init_pc, webhook>>
dispatchVars == <<pc, msg, ctx, triggered, result_actions, effects, alerts, exception>>
bumperVars == <<threads, threads_to_bump, bump_pc, pending, bump_thread_id, bump_exception,
                unarchive_call, thread_update>>

\* The thread bumper not started, with no thread and an empty bump list.
NoBumper ==
    /\ threads = [thread_id \in ThreadIds |-> DeletedThread]
    /\ threads_to_bump = <<>>
    /\ bump_pc = "wait"
    /\ pending = <<>>
    /\ bump_thread_id = 0
    /\ bump_exception = ""
    /\ unarchive_call = NoCall
    /\ thread_update = NoUpdate

vars == <<threads, threads_to_bump, bump_pc, pending, bump_thread_id, bump_exception, unarchive_call,
          thread_update,
          opA, opB, opC, merged, mpc, message1, message2, merged_message, raw_filter_lists, filter_lists, added, already_warned, log, init_pc,
          webhook, _subscriptions, pc, msg, ctx, triggered, result_actions, effects, alerts,
          exception>>

\* The cog right after Filtering.__init__.
InitCog ==
    /\ raw_filter_lists = <<>>
    /\ filter_lists = {}
    /\ added = <<>>
    /\ already_warned = {}
    /\ log = <<>>
    /\ init_pc = "load"
    /\ webhook = "None"
    /\ _subscriptions = [e \in Events |-> <<>>]
    /\ pc = "idle"
    /\ msg = NoMessage
    /\ ctx = NoContext
    /\ triggered = <<>>
    /\ result_actions = NoEntry
    /\ effects = <<>>
    /\ alerts = <<>>
    /\ exception = NoException

cogVars == <<raw_filter_lists, filter_lists, added, already_warned, log, init_pc, webhook, _subscriptions,
             pc, msg, ctx, triggered, result_actions, effects, alerts, exception>>

\* _merge_messages not called.
NotMerged == [t |-> "not called", s |-> "", n |-> 0]

NoMessages ==
    /\ message1 = PyStr("")
    /\ message2 = PyStr("")
    /\ merged_message = NotMerged

NotCalled == [exc |-> "not called", val |-> NoEntry, is |-> "none"]
NoMerge == [ab |-> NotCalled, ba |-> NotCalled, ab_c |-> NotCalled, a_bc |-> NotCalled]

(* --------------------- specification of the merge ----------------------- *)
InitMerge ==
    /\ opA \in Entries
    /\ opB \in Entries
    /\ opC = NoEntry
    /\ merged = NoMerge
    /\ mpc = "start"
    /\ NoMessages
    /\ NoBumper
    /\ InitCog

\* A | B and B | A
Combine ==
    /\ mpc = "start"
    /\ merged' = [merged EXCEPT !.ab = __or__(opA, opB), !.ba = __or__(opB, opA)]
    /\ mpc' = "combined"
    /\ UNCHANGED <<opA, opB, opC, message1, message2, merged_message>>
    /\ UNCHANGED cogVars
    /\ UNCHANGED bumperVars

NextMerge == Combine

SpecMerge == InitMerge /\ [][NextMerge]_vars

InitAssoc ==
    /\ opA \in PlainEntries
    /\ opB \in PlainEntries
    /\ opC \in PlainEntries
    /\ merged = NoMerge
    /\ mpc = "start"
    /\ NoMessages
    /\ NoBumper
    /\ InitCog

\* (A | B) | C and A | (B | C)
Associate ==
    /\ mpc = "start"
    /\ merged' = [merged EXCEPT
                    !.ab_c = OrResult(__or__(opA, opB), Returned(opC, "other")),
                    !.a_bc = OrResult(Returned(opA, "self"), __or__(opB, opC))]
    /\ mpc' = "associated"
    /\ UNCHANGED <<opA, opB, opC, message1, message2, merged_message>>
    /\ UNCHANGED cogVars
    /\ UNCHANGED bumperVars

NextAssoc == Associate

SpecAssoc == InitAssoc /\ [][NextAssoc]_vars

(* ------------------------------ init_cog -------------------------------- *)
\* The loop of init_cog over raw_filter_lists; st holds filter_lists, added,
\* already_warned, log and the exception that ended the loop ("" when none).
RECURSIVE LoadLists(_, _)
LoadLists(raw, st) ==
    IF raw = <<>> THEN st
    ELSE LET list_name == Head(raw)
             rest == Tail(raw)
         IN  IF list_name \notin st.filter_lists
             THEN IF list_name \notin FilterListTypes /\ list_name \notin st.already_warned
                  THEN LoadLists(rest,
                          [st EXCEPT !.log = Append(@, <<"warning", list_name>>),
                                     !.already_warned = @ \cup {list_name}])
                  ELSE IF list_name \notin FilterListTypes
                  THEN [st EXCEPT !.exc = "KeyError"]
                  ELSE LoadLists(rest,
                          [st EXCEPT !.filter_lists = @ \cup {list_name},
                                     !.added = Append(@, list_name)])
             ELSE LoadLists(rest, [st EXCEPT !.added = Append(@, list_name)])

\* on_message runs without suspension from the fan-out to the reduction.
AtAwait == pc \notin {"fanout", "reduce"}

\* init_cog up to the end of the loop, for the raw filter lists the API returned.
InitCogLoad(response) ==
    /\ init_pc = "load"
    /\ AtAwait
    /\ raw_filter_lists' = response
    /\ LET st == LoadLists(response,
                    [filter_lists |-> filter_lists, added |-> added,
                     already_warned |-> {}, log |-> log, exc |-> ""])
       IN  /\ filter_lists' = st.filter_lists
           /\ added' = st.added
           /\ already_warned' = st.already_warned
           /\ log' = st.log
           /\ init_pc' = IF st.exc # "" THEN st.exc ELSE "fetch_webhook"
    /\ UNCHANGED <<webhook, _subscriptions>>
    /\ UNCHANGED dispatchVars
    /\ UNCHANGED mergeVars
    /\ UNCHANGED bumperVars

\* init_cog: fetch_webhook succeeds or raises HTTPException.
InitCogFetchWebhook(fetched) ==
    /\ init_pc = "fetch_webhook"
    /\ AtAwait
    /\ IF fetched
       THEN webhook' = "webhook" /\ log' = log
       ELSE webhook' = webhook
            /\ log' = Append(log, <<"error", "Failed to fetch incidents webhook">>)
    /\ init_pc' = "done"
    /\ UNCHANGED <<raw_filter_lists, filter_lists, added, already_warned, _subscriptions>>
    /\ UNCHANGED dispatchVars
    /\ UNCHANGED mergeVars
    /\ UNCHANGED bumperVars

(* ------------------------------ subscribe ------------------------------- *)
InList(x, list) == \E i \in 1..Len(list) : list[i] = x

\* The loop of subscribe without the test "not in".
RECURSIVE SubscribeLoopAppends(_, _, _)
SubscribeLoopAppends(subscriptions, filter_list, events) ==
    IF events = <<>> THEN subscriptions
    ELSE SubscribeLoopAppends(
            [subscriptions EXCEPT ![Head(events)] = Append(@, filter_list)],
            filter_list, Tail(events))

\* The loop of subscribe over its events.
RECURSIVE SubscribeLoop(_, _, _)
SubscribeLoop(subscriptions, filter_list, events) ==
    IF events = <<>> THEN subscriptions
    ELSE LET event == Head(events)
         IN  SubscribeLoop(
                IF ~InList(filter_list, subscriptions[event])
                THEN [subscriptions EXCEPT ![event] = Append(@, filter_list)]
                ELSE subscriptions,
                filter_list, Tail(events))

subscribe(filter_list, events) ==
    /\ AtAwait
    /\ _subscriptions' = SubscribeLoop(_subscriptions, filter_list, events)
    /\ UNCHANGED initVars
    /\ UNCHANGED dispatchVars
    /\ UNCHANGED mergeVars
    /\ UNCHANGED bumperVars

(* ------------------------------ on_message ------------------------------ *)
\* on_message up to the start of the loop over the subscribed filter lists.
on_message(author_bot, guild, content) ==
    /\ pc \in {"idle", "returned", "raised"}
    /\ msg' = [author_bot |-> author_bot, guild |-> guild, content |-> content]
    /\ triggered' = <<>>
    /\ result_actions' = NoEntry
    /\ effects' = <<>>
    /\ alerts' = <<>>
    /\ exception' = NoException
    /\ IF author_bot
       THEN ctx' = NoContext /\ pc' = "returned"
       ELSE /\ ctx' = FilterContext("MESSAGE", guild, content)
            /\ pc' = IF _subscriptions["MESSAGE"] = <<>> THEN "reduce" ELSE "fanout"
    /\ UNCHANGED initVars
    /\ UNCHANGED _subscriptions
    /\ UNCHANGED mergeVars
    /\ UNCHANGED bumperVars

\* The loop left after the first filter list.
FanOutStopsEarly(filters) ==
    /\ pc = "fanout"
    /\ LET filter_list == _subscriptions["MESSAGE"][Len(triggered) + 1]
       IN  /\ filters \in TriggersFor(filter_list)
           /\ triggered' = Append(triggered, <<filter_list, filters>>)
    /\ pc' = "reduce"
    /\ UNCHANGED <<msg, ctx, result_actions, effects, alerts, exception>>
    /\ UNCHANGED initVars
    /\ UNCHANGED _subscriptions
    /\ UNCHANGED mergeVars
    /\ UNCHANGED bumperVars

\* One iteration of the loop: triggers_for of the next subscribed filter list.
FanOut(filters) ==
    /\ pc = "fanout"
    /\ LET filter_list == _subscriptions["MESSAGE"][Len(triggered) + 1]
       IN  /\ filters \in TriggersFor(filter_list)
           /\ triggered' = Append(triggered, <<filter_list, filters>>)
    /\ pc' = IF Len(triggered') = Len(_subscriptions["MESSAGE"]) THEN "reduce" ELSE "fanout"
    /\ UNCHANGED <<msg, ctx, result_actions, effects, alerts, exception>>
    /\ UNCHANGED initVars
    /\ UNCHANGED _subscriptions
    /\ UNCHANGED mergeVars
    /\ UNCHANGED bumperVars

\* One iteration of the loop in which triggers_for raises: nothing in
\* on_message handles the exception.
FanOutRaises ==
    /\ pc = "fanout"
    /\ pc' = "raised"
    /\ exception' = [at |-> "fanout", exc |-> "Exception"]
    /\ UNCHANGED <<msg, ctx, triggered, result_actions, effects, alerts>>
    /\ UNCHANGED initVars
    /\ UNCHANGED _subscriptions
    /\ UNCHANGED mergeVars
    /\ UNCHANGED bumperVars

\* (filter_.actions for filters in triggered.values() for filter_ in filters)
RECURSIVE AllActions(_)
AllActions(trig) ==
    IF trig = <<>> THEN <<>>
    ELSE [i \in 1..Len(trig[1][2]) |-> trig[1][2][i].actions] \o AllActions(Tail(trig))

\* functools.reduce(operator.or_, actions) for a non-empty sequence.
RECURSIVE ReduceOr(_, _)
ReduceOr(acc, actions) ==
    IF actions = <<>> THEN acc
    ELSE ReduceOr(OrResult(acc, Returned(Head(actions), "other")), Tail(actions))

reduce(actions) ==
    IF actions = <<>> THEN Raised("TypeError")
    ELSE ReduceOr(Returned(Head(actions), "self"), Tail(actions))

\* "if triggered:" and the reduction of the actions of the matched rules.
Reduce ==
    /\ pc = "reduce"
    /\ IF triggered = <<>>
       THEN pc' = "returned" /\ UNCHANGED <<result_actions, exception>>
       ELSE LET r == reduce(AllActions(triggered))
            IN  IF r.exc # ""
                THEN /\ pc' = "raised"
                     /\ exception' = [at |-> "reduce", exc |-> r.exc]
                     /\ UNCHANGED result_actions
                ELSE /\ pc' = "notify"
                     /\ result_actions' = r.val
                     /\ UNCHANGED exception
    /\ UNCHANGED <<msg, ctx, triggered, effects, alerts>>
    /\ UNCHANGED initVars
    /\ UNCHANGED _subscriptions
    /\ UNCHANGED mergeVars
    /\ UNCHANGED bumperVars

(* ------------------- InfractionAndNotification.action ------------------- *)
\* The DM to the author without its record in the action descriptions.
ActionNotifyUndescribed(outcome) ==
    /\ pc = "notify"
    /\ LET dm_content == _merge_messages(ctx.dm_content, result_actions.dm_content)
           dm_embed == _merge_messages(ctx.dm_embed, result_actions.dm_embed)
           hey == PyStr("Hey " \o Mention \o "!\n" \o dm_content.s)
           sent == Request("author.send", "author", "", hey, dm_embed, PyNone, PyNone, outcome)
       IN  IF Truthy(dm_content) \/ Truthy(dm_embed)
           THEN /\ outcome \in {"sent", "Forbidden", "HTTPException"}
                /\ effects' = Append(effects, sent)
                /\ ctx' = [ctx EXCEPT !.dm_embed = dm_embed]
                /\ pc' = CASE outcome = "sent" -> "superstar"
                           [] outcome = "Forbidden" -> "notify_fallback"
                           [] OTHER -> "raised"
                /\ exception' = IF outcome = "HTTPException"
                                THEN [at |-> "notify", exc |-> outcome] ELSE exception
           ELSE /\ outcome = "sent"
                /\ pc' = "superstar"
                /\ UNCHANGED <<effects, ctx, exception>>
    /\ UNCHANGED <<msg, triggered, result_actions, alerts>>
    /\ UNCHANGED initVars
    /\ UNCHANGED _subscriptions
    /\ UNCHANGED mergeVars
    /\ UNCHANGED bumperVars

\* action, up to the end of "await ctx.author.send": the DM to the author is
\* sent, rejected with Forbidden, or fails with another exception, which
\* leaves action and on_message.  "notified" is appended when it was sent.
ActionNotify(outcome) ==
    /\ pc = "notify"
    /\ LET dm_content == _merge_messages(ctx.dm_content, result_actions.dm_content)
           dm_embed == _merge_messages(ctx.dm_embed, result_actions.dm_embed)
           hey == PyStr("Hey " \o Mention \o "!\n" \o dm_content.s)
           sent == Request("author.send", "author", "", hey, dm_embed, PyNone, PyNone, outcome)
       IN  IF Truthy(dm_content) \/ Truthy(dm_embed)
           THEN /\ outcome \in {"sent", "Forbidden", "HTTPException"}
                /\ effects' = Append(effects, sent)
                /\ ctx' = [ctx EXCEPT !.dm_embed = dm_embed,
                                      !.action_descriptions =
                                          IF outcome = "sent" THEN Append(@, "notified") ELSE @]
                /\ pc' = CASE outcome = "sent" -> "superstar"
                           [] outcome = "Forbidden" -> "notify_fallback"
                           [] OTHER -> "raised"
                /\ exception' = IF outcome = "HTTPException"
                                THEN [at |-> "notify", exc |-> outcome] ELSE exception
           ELSE /\ outcome = "sent"
                /\ pc' = "superstar"
                /\ UNCHANGED <<effects, ctx, exception>>
    /\ UNCHANGED <<msg, triggered, result_actions, alerts>>
    /\ UNCHANGED initVars
    /\ UNCHANGED _subscriptions
    /\ UNCHANGED mergeVars
    /\ UNCHANGED bumperVars

\* action, the handler of Forbidden: "await ctx.channel.send(ctx.dm_content,
\* embed=ctx.dm_embed)" and the append of "notified"; an exception of
\* channel.send leaves action and on_message.
ActionNotifyFallback(outcome) ==
    /\ pc = "notify_fallback"
    /\ effects' = Append(effects,
                     Request("channel.send", "channel", "", ctx.dm_content, ctx.dm_embed,
                             PyNone, PyNone, outcome))
    /\ IF outcome = "sent"
       THEN /\ ctx' = [ctx EXCEPT !.action_descriptions = Append(@, "notified")]
            /\ pc' = "superstar"
            /\ UNCHANGED exception
       ELSE /\ pc' = "raised"
            /\ exception' = [at |-> "notify", exc |-> outcome]
            /\ UNCHANGED ctx
    /\ UNCHANGED <<msg, triggered, result_actions, alerts>>
    /\ UNCHANGED initVars
    /\ UNCHANGED _subscriptions
    /\ UNCHANGED mergeVars
    /\ UNCHANGED bumperVars

\* action: the embedded superstar.  timedelta(seconds=None) raises TypeError.
ActionSuperstar ==
    /\ pc = "superstar"
    /\ LET superstar == result_actions._superstar
       IN  IF ~superstar.present
           THEN pc' = "infraction" /\ UNCHANGED <<effects, ctx, exception>>
           ELSE IF superstar.duration.t # "float"
           THEN /\ pc' = "raised"
                /\ exception' = [at |-> "superstar", exc |-> "TypeError"]
                /\ UNCHANGED <<effects, ctx>>
           ELSE /\ effects' = Append(effects,
                                 Request("invoke", "channel", "superstar", PyNone, PyNone,
                                         superstar.duration, superstar.reason, "sent"))
                /\ ctx' = [ctx EXCEPT !.action_descriptions = Append(@, "superstarred")]
                /\ pc' = "infraction"
                /\ UNCHANGED exception
    /\ UNCHANGED <<msg, triggered, result_actions, alerts>>
    /\ UNCHANGED initVars
    /\ UNCHANGED _subscriptions
    /\ UNCHANGED mergeVars
    /\ UNCHANGED bumperVars

\* str.lower() of the names of the Infraction members.
Lower(name) ==
    CASE name = "BAN" -> "ban"
      [] name = "KICK" -> "kick"
      [] name = "MUTE" -> "mute"
      [] name = "VOICE_BAN" -> "voice_ban"
      [] name = "WARNING" -> "warning"
      [] name = "WATCH" -> "watch"
      [] name = "SUPERSTAR" -> "superstar"
      [] name = "NOTE" -> "note"
      [] OTHER -> "none"

\* action: the primary infraction.
ActionInfraction ==
    /\ pc = "infraction"
    /\ IF result_actions.infraction_type = "NONE"
       THEN pc' = "alert" /\ UNCHANGED <<effects, ctx, exception>>
       ELSE IF result_actions.infraction_duration.t # "float"
       THEN /\ pc' = "raised"
            /\ exception' = [at |-> "infraction", exc |-> "TypeError"]
            /\ UNCHANGED <<effects, ctx>>
       ELSE /\ effects' = Append(effects,
                             Request("invoke",
                                     IF result_actions.infraction_type = "BAN" \/ ~ctx.guild
                                     THEN "mod_alerts" ELSE "channel",
                                     result_actions.infraction_type, PyNone, PyNone,
                                     result_actions.infraction_duration,
                                     result_actions.infraction_reason, "sent"))
            /\ ctx' = [ctx EXCEPT !.action_descriptions =
                                      Append(@, Lower(result_actions.infraction_type))]
            /\ pc' = "alert"
            /\ UNCHANGED exception
    /\ UNCHANGED <<msg, triggered, result_actions, alerts>>
    /\ UNCHANGED initVars
    /\ UNCHANGED _subscriptions
    /\ UNCHANGED mergeVars
    /\ UNCHANGED bumperVars

(* ------------------------------ _send_alert ----------------------------- *)
\* The length above which the description of the alert is cut.
AlertLimit == 4000

\* The backquote character U+0060, written as an apostrophe.
Backquote == "'"

\* str.title() of the names of the filter lists.
title(name) ==
    CASE name = "token" -> "Token"
      [] name = "domain" -> "Domain"
      [] OTHER -> name

\* separator.join(items)
RECURSIVE join(_, _)
join(separator, items) ==
    IF items = <<>> THEN ""
    ELSE IF Len(items) = 1 THEN items[1]
    ELSE items[1] \o separator \o join(separator, Tail(items))

\* discord.utils.escape_markdown: a backslash before each markdown character.
MarkdownCharacters == {"_", "\\", "~", "|", "*", Backquote}

RECURSIVE escape_markdown(_)
escape_markdown(text) ==
    IF Len(text) = 0 THEN ""
    ELSE IF Len(text) = 1 THEN (IF text \in MarkdownCharacters THEN "\\" \o text ELSE text)
    ELSE LET half == Len(text) \div 2
         IN  escape_markdown(SubSeq(text, 1, half))
                \o escape_markdown(SubSeq(text, half + 1, Len(text)))

\* The reference to a rule in `filters`: "#", the id, and the content between
\* backquotes and parentheses.
FilterReference(filter_) ==
    "#" \o ToString(filter_.id) \o " (" \o Backquote \o filter_.content \o Backquote \o ")"

\* The lines of `filters` in the branch of several lists or several rules:
\* the adjacent literals make "**<list> Filters:** , " the separator of join.
FilterLines(triggered_filters) ==
    [i \in 1..Len(triggered_filters) |->
        join("**" \o title(triggered_filters[i][1]) \o " Filters:** " \o ", ",
             [k \in 1..Len(triggered_filters[i][2]) |->
                 FilterReference(triggered_filters[i][2][k])])]

\* _send_alert: the value of `filters`.
FiltersSummary(triggered_filters) ==
    IF Len(triggered_filters) = 1 /\ Len(triggered_filters[1][2]) = 1
    THEN LET filter_list == triggered_filters[1][1]
             filter_ == triggered_filters[1][2][1]
         IN  "**" \o title(filter_list) \o " Filters:** " \o FilterReference(filter_)
                \o (IF filter_.description # "" THEN " - " \o filter_.description ELSE "")
    ELSE join("\n", FilterLines(triggered_filters))

SelectNonEmpty(parts) == SelectSeq(parts, LAMBDA part : part # "")

\* _send_alert: embed_content before the cut; format_user, format_channel and
\* jump_url are those of the one author, channel and message of the model.
EmbedContent(context, triggered_filters) ==
    LET triggered_by == "**Triggered by:** " \o Mention \o " (" \o Backquote \o "1" \o Backquote \o ")"
        triggered_in == IF context.guild THEN "**Triggered in:** " \o "#general (" \o Backquote \o "2" \o Backquote \o ")"
                        ELSE "**DM**"
        filters == FiltersSummary(triggered_filters)
        matches == "**Matches:** "
        actions == "**Actions Taken:** "
                      \o (IF context.action_descriptions # <<>>
                          THEN join(", ", context.action_descriptions) ELSE "-")
        content == "**[Original Content](" \o "https://discord.com/channels/0/2/3" \o ")**: "
                      \o escape_markdown(context.content)
    IN  join("\n", SelectNonEmpty(<<triggered_by, triggered_in, filters, matches, actions, content>>))

\* The cut applied to descriptions of AlertLimit characters and more.
CutInclusive(embed_content) ==
    IF Len(embed_content) >= AlertLimit
    THEN SubSeq(embed_content, 1, AlertLimit) \o " [...]"
    ELSE embed_content

\* _send_alert: the cut of embed_content.
Cut(embed_content) ==
    IF Len(embed_content) > AlertLimit
    THEN SubSeq(embed_content, 1, AlertLimit) \o " [...]"
    ELSE embed_content

\* The call of webhook.send.
Alert(context, triggered_filters) ==
    [username |-> "Message Filter",
     content |-> "",
     filters |-> FiltersSummary(triggered_filters),
     embed_content |-> EmbedContent(context, triggered_filters),
     description |-> Cut(EmbedContent(context, triggered_filters)),
     actions |-> context.action_descriptions]


\* "if ctx.send_alert: await self._send_alert(ctx, triggered)"; webhook.send
\* succeeds or raises HTTPException.
_send_alert(outcome) ==
    /\ pc = "alert"
    /\ IF ~ctx.send_alert \/ webhook = "None"
       THEN /\ outcome = "sent"
            /\ pc' = "returned"
            /\ UNCHANGED <<alerts, exception>>
       ELSE /\ outcome \in {"sent", "HTTPException"}
            /\ IF outcome = "sent"
               THEN /\ alerts' = Append(alerts,
                                    Alert(ctx, triggered))
                    /\ pc' = "returned"
                    /\ UNCHANGED exception
               ELSE /\ pc' = "raised"
                    /\ exception' = [at |-> "alert", exc |-> outcome]
                    /\ UNCHANGED alerts
    /\ UNCHANGED <<msg, ctx, triggered, result_actions, effects>>
    /\ UNCHANGED initVars
    /\ UNCHANGED _subscriptions
    /\ UNCHANGED mergeVars
    /\ UNCHANGED bumperVars

(* ------------------- specification of the cog --------------------------- *)
Init ==
    /\ opA = NoEntry
    /\ opB = NoEntry
    /\ opC = NoEntry
    /\ merged = NoMerge
    /\ mpc = "idle"
    /\ NoMessages
    /\ NoBumper
    /\ InitCog

Next ==
    \/ \E response \in SeqsUpTo(RawNames, MaxRaw) : InitCogLoad(response)
    \/ \E fetched \in BOOLEAN : InitCogFetchWebhook(fetched)
    \/ \E filter_list \in FilterListTypes, events \in SeqsUpTo(Events, 2) :
          subscribe(filter_list, events)
    \/ \E author_bot \in BOOLEAN, guild \in BOOLEAN, content \in Contents :
          on_message(author_bot, guild, content)
    \/ \E list_name \in FilterListTypes : \E filters \in TriggersFor(list_name) : FanOut(filters)
    \/ FanOutRaises
    \/ Reduce
    \/ \E outcome \in {"sent", "Forbidden", "HTTPException"} : ActionNotify(outcome)
    \/ \E outcome \in {"sent", "HTTPException"} : ActionNotifyFallback(outcome)
    \/ ActionSuperstar
    \/ ActionInfraction
    \/ \E outcome \in {"sent", "HTTPException"} : _send_alert(outcome)

Spec == Init /\ [][Next]_vars

(* ----------------- specification of _merge_messages ---------------------- *)
\* The messages merged: empty, plain, with a bullet, with and without the
\* space after it, and of several lines.
Messages ==
    {"", "a", "b", "foo", "bar", Bullet, Bullet \o " a", Bullet \o "b", Bullet \o " foo",
     "a\n\n" \o Bullet \o " b", " " \o Bullet}

InitMessages ==
    /\ opA = NoEntry
    /\ opB = NoEntry
    /\ opC = NoEntry
    /\ merged = NoMerge
    /\ mpc = "idle"
    /\ message1 \in {PyStr(m) : m \in Messages}
    /\ message2 \in {PyStr(m) : m \in Messages}
    /\ merged_message = NotMerged
    /\ NoBumper
    /\ InitCog

MergeMessages ==
    /\ merged_message = NotMerged
    /\ merged_message' = _merge_messages(message1, message2)
    /\ UNCHANGED <<opA, opB, opC, merged, mpc, message1, message2>>
    /\ UNCHANGED cogVars
    /\ UNCHANGED bumperVars

NextMessages == MergeMessages

SpecMessages == InitMessages /\ [][NextMessages]_vars

(* ---------------- specification of the alerts of long messages ---------- *)
\* How far the lengths of the long messages go around the one that makes the
\* shortest alert exactly AlertLimit characters long.
MaxDelta == 2

RECURSIVE Repeat(_, _)
Repeat(text, n) ==
    IF n <= 0 THEN ""
    ELSE IF n = 1 THEN text
    ELSE LET half == Repeat(text, n \div 2)
         IN  half \o half \o (IF n % 2 = 1 THEN text ELSE "")

\* The alert of an empty direct message that triggered rule #1 alone.
ShortestBody ==
    EmbedContent(
        [FilterContext("MESSAGE", FALSE, "") EXCEPT
            !.action_descriptions = <<Lower(FiltersOf("token")[1].actions.infraction_type)>>],
        <<<<"token", <<FiltersOf("token")[1]>>>>>>)

\* msg.content: a short message, and messages that bring the alert to the limit.
AlertContents ==
    Contents \cup {Repeat("a", AlertLimit - Len(ShortestBody) + d) : d \in (0 - MaxDelta)..MaxDelta}

\* The cog after init_cog loaded the token list and fetched the webhook, and
\* the token list subscribed to MESSAGE.
InitAlert ==
    /\ opA = NoEntry
    /\ opB = NoEntry
    /\ opC = NoEntry
    /\ merged = NoMerge
    /\ mpc = "idle"
    /\ NoMessages
    /\ NoBumper
    /\ raw_filter_lists = <<"token">>
    /\ filter_lists = {"token"}
    /\ added = <<"token">>
    /\ already_warned = {}
    /\ log = <<>>
    /\ init_pc = "done"
    /\ webhook = "webhook"
    /\ _subscriptions = [e \in Events |-> IF e = "MESSAGE" THEN <<"token">> ELSE <<>>]
    /\ pc = "idle"
    /\ msg = NoMessage
    /\ ctx = NoContext
    /\ triggered = <<>>
    /\ result_actions = NoEntry
    /\ effects = <<>>
    /\ alerts = <<>>
    /\ exception = NoException

NextAlert ==
    \/ \E author_bot \in BOOLEAN, guild \in BOOLEAN, content \in AlertContents :
          on_message(author_bot, guild, content)
    \/ \E list_name \in FilterListTypes : \E filters \in TriggersFor(list_name) : FanOut(filters)
    \/ FanOutRaises
    \/ Reduce
    \/ \E outcome \in {"sent", "Forbidden", "HTTPException"} : ActionNotify(outcome)
    \/ \E outcome \in {"sent", "HTTPException"} : ActionNotifyFallback(outcome)
    \/ ActionSuperstar
    \/ ActionInfraction
    \/ \E outcome \in {"sent", "HTTPException"} : _send_alert(outcome)

SpecAlert == InitAlert /\ [][NextAlert]_vars

(* ------------------ specification of the thread bumper ------------------ *)
abs(x) == IF x < 0 THEN 0 - x ELSE x

\* RedisCache.delete and RedisCache.set on the ids of threads_to_bump.
delete(cache, thread_id) == SelectSeq(cache, LAMBDA key : key # thread_id)
set(cache, thread_id) == IF InList(thread_id, cache) THEN cache ELSE Append(cache, thread_id)

\* unarchive_if_not_manually_archived(thread): the thread after the call,
\* whether the call deleted its id from threads_to_bump, and the exception
\* raised.  thread.history yields discord.Message objects only.
unarchive_if_not_manually_archived(thread) ==
    IF ~thread.archived THEN [thread |-> thread, deleted |-> FALSE, exc |-> ""]
    ELSE IF ~thread.has_message THEN [thread |-> thread, deleted |-> FALSE, exc |-> "IndexError"]
    ELSE LET last_message_til_archive_time == thread.gap
             difference == abs(last_message_til_archive_time * 60 - thread.auto_archive_duration)
         IN  IF difference < 1
             THEN [thread |-> [thread EXCEPT !.archived = FALSE, !.gap = 0],
                   deleted |-> FALSE, exc |-> ""]
             ELSE [thread |-> thread, deleted |-> TRUE, exc |-> ""]

\* The bump lists: the ids of threads, each at most once.
RECURSIVE BumpLists(_)
BumpLists(k) ==
    IF k = 0 THEN {<<>>}
    ELSE LET shorter == BumpLists(k - 1)
         IN  shorter \cup {Append(list, thread_id) :
                              list \in {l \in shorter : Len(l) = k - 1},
                              thread_id \in ThreadIds}

InitBumper ==
    /\ opA = NoEntry
    /\ opB = NoEntry
    /\ opC = NoEntry
    /\ merged = NoMerge
    /\ mpc = "idle"
    /\ NoMessages
    /\ InitCog
    /\ threads \in [ThreadIds -> ThreadStates]
    /\ threads_to_bump \in {list \in BumpLists(MaxThreads) :
                              \A i, j \in 1..Len(list) : list[i] = list[j] => i = j}
    /\ bump_pc = "wait"
    /\ pending = <<>>
    /\ bump_thread_id = 0
    /\ bump_exception = ""
    /\ unarchive_call = NoCall
    /\ thread_update = NoUpdate

\* ensure_bumped_threads_are_active up to the start of its loop.
EnsureStart ==
    /\ bump_pc = "wait"
    /\ pending' = threads_to_bump
    /\ bump_pc' = IF threads_to_bump = <<>> THEN "done" ELSE "loop"
    /\ unarchive_call' = NoCall
    /\ UNCHANGED <<threads, threads_to_bump, bump_thread_id, bump_exception, thread_update>>
    /\ UNCHANGED mergeVars
    /\ UNCHANGED cogVars

\* One iteration of the loop of ensure_bumped_threads_are_active.
EnsureStep ==
    /\ bump_pc = "loop"
    /\ LET thread_id == Head(pending)
           found == threads[thread_id].cached
           not_found == ~threads[thread_id].exists
           after_fetch == IF not_found THEN delete(threads_to_bump, thread_id)
                          ELSE threads_to_bump
           unarchived == unarchive_if_not_manually_archived(threads[thread_id])
           next_pc == IF Tail(pending) = <<>> THEN "done" ELSE "loop"
       IN  /\ bump_thread_id' = thread_id
           /\ pending' = Tail(pending)
           /\ IF found /\ ~threads[thread_id].archived
              THEN /\ bump_pc' = next_pc
                   /\ unarchive_call' = NoCall
                   /\ UNCHANGED <<threads, threads_to_bump, bump_exception>>
              ELSE IF not_found /\ ~found
              THEN /\ threads_to_bump' = after_fetch
                   /\ bump_pc' = "raised"
                   /\ bump_exception' = "AttributeError"
                   /\ unarchive_call' = NoCall
                   /\ UNCHANGED threads
              ELSE IF threads[thread_id].archived
              THEN /\ unarchive_call' = [thread_id |-> thread_id, thread |-> threads[thread_id],
                                         listed |-> InList(thread_id, after_fetch)]
                   /\ threads' = [threads EXCEPT ![thread_id] = unarchived.thread]
                   /\ threads_to_bump' = IF unarchived.deleted THEN delete(after_fetch, thread_id)
                                         ELSE after_fetch
                   /\ bump_pc' = IF unarchived.exc # "" THEN "raised" ELSE next_pc
                   /\ bump_exception' = unarchived.exc
              ELSE /\ threads_to_bump' = after_fetch
                   /\ bump_pc' = next_pc
                   /\ unarchive_call' = NoCall
                   /\ UNCHANGED <<threads, bump_exception>>
    /\ UNCHANGED thread_update
    /\ UNCHANGED mergeVars
    /\ UNCHANGED cogVars

\* on_thread_update(_, after) for the thread thread_id, up to "await
\* self.threads_to_bump.items()".  "await self.init_task" raises the
\* exception that ended ensure_bumped_threads_are_active.
on_thread_update(thread_id, after) ==
    /\ bump_pc \in {"done", "raised"}
    /\ thread_update.pc = "idle"
    /\ threads[thread_id].exists
    /\ after \in LiveThreads
    /\ threads' = [threads EXCEPT ![thread_id] = after]
    /\ thread_update' =
          [pc |-> IF bump_pc = "done" /\ after.archived THEN "items" ELSE "idle",
           thread_id |-> thread_id, after |-> after,
           exc |-> IF bump_pc = "raised" THEN bump_exception ELSE ""]
    /\ unarchive_call' = NoCall
    /\ UNCHANGED <<threads_to_bump, bump_pc, pending, bump_thread_id, bump_exception>>
    /\ UNCHANGED mergeVars
    /\ UNCHANGED cogVars

\* on_thread_update from the ids items() returned to the call of
\* unarchive_if_not_manually_archived, up to its "await thread.history".
OnThreadUpdateItems ==
    /\ thread_update.pc = "items"
    /\ thread_update' =
          [thread_update EXCEPT
              !.pc = IF InList(thread_update.thread_id, threads_to_bump)
                        /\ thread_update.after.archived
                     THEN "history" ELSE "idle"]
    /\ unarchive_call' = NoCall
    /\ UNCHANGED <<threads, threads_to_bump, bump_pc, pending, bump_thread_id, bump_exception>>
    /\ UNCHANGED mergeVars
    /\ UNCHANGED cogVars

\* unarchive_if_not_manually_archived from the messages history returned to
\* "await thread.edit" or "await self.threads_to_bump.delete"; messages[0] of
\* an empty history raises IndexError, which ends the call and leaves
\* on_thread_update.
OnThreadUpdateHistory ==
    /\ thread_update.pc = "history"
    /\ LET unarchived == unarchive_if_not_manually_archived(thread_update.after)
       IN  /\ thread_update' =
              [thread_update EXCEPT
                  !.pc = IF unarchived.exc # "" THEN "idle"
                         ELSE IF unarchived.deleted THEN "delete" ELSE "edit",
                  !.exc = unarchived.exc]
           /\ unarchive_call' =
                 IF unarchived.exc # ""
                 THEN [thread_id |-> thread_update.thread_id, thread |-> thread_update.after,
                       listed |-> InList(thread_update.thread_id, threads_to_bump)]
                 ELSE NoCall
    /\ UNCHANGED <<threads, threads_to_bump, bump_pc, pending, bump_thread_id, bump_exception>>
    /\ UNCHANGED mergeVars
    /\ UNCHANGED cogVars

\* The end of unarchive_if_not_manually_archived in on_thread_update:
\* thread.edit(archived=False), or threads_to_bump.delete(thread.id).
OnThreadUpdateFinish ==
    /\ thread_update.pc \in {"edit", "delete"}
    /\ LET thread_id == thread_update.thread_id
       IN  /\ IF thread_update.pc = "edit"
              THEN /\ threads' = [threads EXCEPT ![thread_id] =
                                     unarchive_if_not_manually_archived(thread_update.after).thread]
                   /\ UNCHANGED threads_to_bump
              ELSE /\ threads_to_bump' = delete(threads_to_bump, thread_id)
                   /\ UNCHANGED threads
           /\ unarchive_call' = [thread_id |-> thread_id, thread |-> thread_update.after,
                                 listed |-> InList(thread_id, threads_to_bump)]
    /\ thread_update' = [thread_update EXCEPT !.pc = "idle"]
    /\ UNCHANGED <<bump_pc, pending, bump_thread_id, bump_exception>>
    /\ UNCHANGED mergeVars
    /\ UNCHANGED cogVars

\* The command "bump add" with a thread id, once init_task is done.
add_thread_to_bump_list(thread_id) ==
    /\ bump_pc = "done"
    /\ threads_to_bump' = set(threads_to_bump, thread_id)
    /\ unarchive_call' = NoCall
    /\ UNCHANGED <<threads, bump_pc, pending, bump_thread_id, bump_exception, thread_update>>
    /\ UNCHANGED mergeVars
    /\ UNCHANGED cogVars

\* The command "bump remove" with a thread id, once init_task is done.
remove_thread_from_bump_list(thread_id) ==
    /\ bump_pc = "done"
    /\ threads_to_bump' = delete(threads_to_bump, thread_id)
    /\ unarchive_call' = NoCall
    /\ UNCHANGED <<threads, bump_pc, pending, bump_thread_id, bump_exception, thread_update>>
    /\ UNCHANGED mergeVars
    /\ UNCHANGED cogVars

NextBumper ==
    \/ EnsureStart
    \/ EnsureStep
    \/ \E thread_id \in ThreadIds, after \in LiveThreads : on_thread_update(thread_id, after)
    \/ OnThreadUpdateItems
    \/ OnThreadUpdateHistory
    \/ OnThreadUpdateFinish
    \/ \E thread_id \in ThreadIds : add_thread_to_bump_list(thread_id)
    \/ \E thread_id \in ThreadIds : remove_thread_from_bump_list(thread_id)

SpecBumper == InitBumper /\ [][NextBumper]_vars

(* ------------------------- merge properties ----------------------------- *)
\* The fields of an entry that the merge claims compare.
SameEntry(e, x) ==
    /\ e.infraction_type = x.infraction_type
    /\ e.infraction_reason = x.infraction_reason
    /\ e.infraction_duration = x.infraction_duration
    /\ e.dm_content = x.dm_content
    /\ e.dm_embed = x.dm_embed
    /\ e._superstar = x._superstar

Yields(outcome, x) == outcome.exc = "" /\ SameEntry(outcome.val, x)

\* C2 as stated: for any X and any N of type NONE, combine(X, N) = X and
\* combine(N, X) = X.
C2_Original ==
    (mpc = "combined" /\ opB.infraction_type = "NONE")
        => (Yields(merged.ab, opA) /\ Yields(merged.ba, opA))

\* C2 (amended): for any X and any N of type NONE, combine(N, X) = X;
\* combine(X, N) = X when the type of X is not NONE, and combine(X, N) = N
\* when the type of X is NONE as well.
C2_MergeIdentity ==
    (mpc = "combined" /\ opB.infraction_type = "NONE")
        => /\ Yields(merged.ba, opA)
           /\ opA.infraction_type # "NONE" => Yields(merged.ab, opA)
           /\ opA.infraction_type = "NONE" => Yields(merged.ab, opB)

C2_Witness ==
    /\ mpc = "combined"
    /\ opB.infraction_type = "NONE"
    /\ opB.dm_content = PyStr("x")
    /\ opA.infraction_type = "BAN"
    /\ opA.infraction_reason = PyStr("a")
    /\ Yields(merged.ab, opA)
    /\ Yields(merged.ba, opA)

\* C3: combining two entries of the same non-NONE type yields an entry of
\* that type whose duration is the larger of the two, None (permanent)
\* winning over any number.
C3_SameTypeDuration ==
    (mpc = "combined" /\ opA.infraction_type = opB.infraction_type
       /\ opA.infraction_type # "NONE")
        => /\ merged.ab.exc = ""
           /\ merged.ab.val.infraction_type = opA.infraction_type
           /\ merged.ab.val.infraction_duration =
                 (IF opA.infraction_duration = PyNone \/ opB.infraction_duration = PyNone
                  THEN PyNone
                  ELSE IF opA.infraction_duration.n >= opB.infraction_duration.n
                       THEN opA.infraction_duration ELSE opB.infraction_duration)

\* C4: when exactly one operand is a SUPERSTAR and the other has another
\* non-NONE type, the result has the primary infraction of the other operand
\* and an embedded superstar carrying the SUPERSTAR operand's reason and
\* duration (merged with the embedded superstars of the operands), in
\* either operand order.
C4_Superstar(outcome, star, plain) ==
    /\ outcome.exc = ""
    /\ outcome.val.infraction_type = plain.infraction_type
    /\ outcome.val.infraction_reason = plain.infraction_reason
    /\ outcome.val.infraction_duration = plain.infraction_duration
    /\ outcome.val.dm_content = plain.dm_content
    /\ outcome.val.dm_embed = plain.dm_embed
    /\ outcome.val._superstar.present
    /\ (~star._superstar.present /\ ~plain._superstar.present)
          => outcome.val._superstar =
                SuperstarTuple(star.infraction_reason, star.infraction_duration)

C4_SuperstarFolded ==
    (mpc = "combined" /\ opA.infraction_type = "SUPERSTAR"
       /\ opB.infraction_type \notin {"SUPERSTAR", "NONE"})
        => (C4_Superstar(merged.ab, opA, opB) /\ C4_Superstar(merged.ba, opA, opB))

\* C5: for two entries of different types, neither NONE nor SUPERSTAR, both
\* combine(A, B) and combine(B, A) have the more severe type, the duration of
\* the more severe operand, and reason and DM fields merged from both.
C5_Severity(outcome, first, second) ==
    LET severe == IF InfractionValue(first.infraction_type)
                        < InfractionValue(second.infraction_type)
                  THEN first ELSE second
    IN  /\ outcome.exc = ""
        /\ outcome.val.infraction_type = severe.infraction_type
        /\ outcome.val.infraction_duration = severe.infraction_duration
        /\ outcome.val.infraction_reason =
              _merge_messages(first.infraction_reason, second.infraction_reason)
        /\ outcome.val.dm_content = _merge_messages(first.dm_content, second.dm_content)
        /\ outcome.val.dm_embed = _merge_messages(first.dm_embed, second.dm_embed)

C5_SeverityResolution ==
    (mpc = "combined" /\ opA.infraction_type # opB.infraction_type
       /\ opA.infraction_type \notin {"SUPERSTAR", "NONE"}
       /\ opB.infraction_type \notin {"SUPERSTAR", "NONE"})
        => (C5_Severity(merged.ab, opA, opB) /\ C5_Severity(merged.ba, opB, opA))

\* The reasons of a merged message: its bullet points, without the marker.
StripBullet(str) ==
    IF Len(str) >= 2 /\ SubSeq(str, 1, 2) = Bullet \o " " THEN SubSeq(str, 3, Len(str)) ELSE str

RECURSIVE ReasonSet(_)
ReasonSet(str) ==
    IF str = "" THEN {}
    ELSE IF \E i \in 1..(Len(str) - 1) : SubSeq(str, i, i + 1) = "\n\n"
    THEN LET i == CHOOSE k \in 1..(Len(str) - 1) :
                     /\ SubSeq(str, k, k + 1) = "\n\n"
                     /\ \A j \in 1..(k - 1) : SubSeq(str, j, j + 1) # "\n\n"
         IN  {StripBullet(SubSeq(str, 1, i - 1))} \cup ReasonSet(SubSeq(str, i + 2, Len(str)))
    ELSE {StripBullet(str)}

\* C6: for entries without superstar, combine(combine(A, B), C) and
\* combine(A, combine(B, C)) are both defined and have the same type, the
\* same duration and the same set of reasons.
C6_Associativity ==
    mpc = "associated"
        => /\ merged.ab_c.exc = ""
           /\ merged.a_bc.exc = ""
           /\ merged.ab_c.val.infraction_type = merged.a_bc.val.infraction_type
           /\ merged.ab_c.val.infraction_duration = merged.a_bc.val.infraction_duration
           /\ ReasonSet(merged.ab_c.val.infraction_reason.s)
                 = ReasonSet(merged.a_bc.val.infraction_reason.s)

\* C7: combine(A, B) equals combine(B, A) in type, duration, reason, DM
\* content and DM embed.
C7_Commutativity ==
    mpc = "combined"
        => /\ merged.ab.exc = ""
           /\ merged.ba.exc = ""
           /\ merged.ab.val.infraction_type = merged.ba.val.infraction_type
           /\ merged.ab.val.infraction_duration = merged.ba.val.infraction_duration
           /\ merged.ab.val.infraction_reason = merged.ba.val.infraction_reason
           /\ merged.ab.val.dm_content = merged.ba.val.dm_content
           /\ merged.ab.val.dm_embed = merged.ba.val.dm_embed

(* ------------------------- dispatch properties -------------------------- *)
\* C1: for a message of a non-bot author, when every subscribed filter list
\* returned no matched rule, the dispatch ends normally with no action
\* applied, no request to the platform and no alert.
C1_NoMatchNoEffect ==
    (pc \in {"returned", "raised"} /\ ~msg.author_bot /\ ctx.event = "MESSAGE"
       /\ exception.at # "fanout"
       /\ \A i \in 1..Len(triggered) : triggered[i][2] = <<>>)
        => /\ pc = "returned"
           /\ exception = NoException
           /\ effects = <<>>
           /\ alerts = <<>>
           /\ ctx.action_descriptions = <<>>

\* C8: when the DM to the author is rejected with Forbidden, the content and
\* the embed of the DM are posted in the channel and, once they are posted,
\* "notified" is recorded and the rest of action runs.
C8_ForbiddenFallback ==
    \A i \in 1..Len(effects) :
        (effects[i].op = "author.send" /\ effects[i].outcome = "Forbidden"
            /\ pc # "notify_fallback")
            => /\ i < Len(effects)
               /\ effects[i + 1].op = "channel.send"
               /\ effects[i + 1].content = effects[i].content
               /\ effects[i + 1].embed = effects[i].embed
               /\ effects[i + 1].outcome = "sent"
                     => /\ InList("notified", ctx.action_descriptions)
                        /\ exception.at # "notify"

Count(list, x) == Cardinality({i \in 1..Len(list) : list[i] = x})

\* C9: once the loop of init_cog has ended, it has not raised, every unknown
\* name among the raw lists was warned about once and not registered, and
\* every known raw list was registered and loaded.
C9_UnknownSkipped ==
    init_pc # "load"
        => /\ init_pc \in {"fetch_webhook", "done"}
           /\ \A name \in RawNames \ FilterListTypes :
                 /\ name \notin filter_lists
                 /\ Count(added, name) = 0
                 /\ InList(name, raw_filter_lists) => Count(log, <<"warning", name>>) = 1
           /\ \A name \in FilterListTypes :
                 /\ InList(name, raw_filter_lists) => name \in filter_lists
                 /\ Count(added, name) = Count(raw_filter_lists, name)

\* C10: the step after the application of the actions ends the dispatch
\* normally whether the alert is sent, skipped for want of a webhook, or
\* its emission fails; a skipped alert was logged; the requests made and the
\* action descriptions recorded stay as they are.
C10_AlertFailureTolerated ==
    [][(pc = "alert" /\ pc' # "alert")
          => /\ pc' = "returned"
             /\ exception' = NoException
             /\ effects' = effects
             /\ ctx'.action_descriptions = ctx.action_descriptions
             /\ (alerts' = alerts /\ init_pc = "done")
                   => \E i \in 1..Len(log) : log[i][1] = "error"]_vars

\* The names of the filter lists of on_message's triggered, in order.
TriggeredLists == [i \in 1..Len(triggered) |-> triggered[i][1]]

\* The action descriptions that applying an entry records.
DescriptionsOf(entry) ==
    (IF Truthy(entry.dm_content) \/ Truthy(entry.dm_embed) THEN <<"notified">> ELSE <<>>)
    \o (IF entry._superstar.present THEN <<"superstarred">> ELSE <<>>)
    \o (IF entry.infraction_type # "NONE" THEN <<Lower(entry.infraction_type)>> ELSE <<>>)

\* C11: within a dispatch, triggers_for was called on every subscribed filter
\* list before the reduction begins; nothing is applied before the reduction
\* and what is applied is the reduced action; an alert is sent only after
\* the application has finished and carries every action description that
\* the application recorded.
C11_PhaseOrder ==
    /\ pc = "reduce" => TriggeredLists = _subscriptions["MESSAGE"]
    /\ pc \in {"fanout", "reduce"}
          => /\ result_actions = NoEntry
             /\ effects = <<>>
             /\ ctx.action_descriptions = <<>>
             /\ alerts = <<>>
    /\ pc \in {"notify", "notify_fallback", "superstar", "infraction", "alert"}
          => /\ reduce(AllActions(triggered)) = Returned(result_actions, "self")
                   \/ reduce(AllActions(triggered)) = Returned(result_actions, "other")
                   \/ reduce(AllActions(triggered)) = Returned(result_actions, "new")
             /\ alerts = <<>>
    /\ alerts # <<>>
          => /\ pc = "returned"
             /\ Len(alerts) = 1
             /\ alerts[1].actions = ctx.action_descriptions
             /\ alerts[1].actions = DescriptionsOf(result_actions)

C11_Witness ==
    /\ alerts # <<>>
    /\ Len(triggered) = 2
    /\ Len(triggered[1][2]) + Len(triggered[2][2]) >= 2
    /\ Len(alerts[1].actions) = 3

\* C12: when triggers_for of one subscribed filter list raises, the dispatch
\* goes on: it is not ended by that exception, the other subscribed lists
\* are evaluated and the actions of their matched rules are applied.
C12_FanOutFailureIsolated ==
    exception.at = "fanout"
        => /\ pc # "raised"
           /\ (pc \in {"alert", "returned"} /\ AllActions(triggered) # <<>>)
                 => ctx.action_descriptions = DescriptionsOf(result_actions)

(* ---------------------------------- C13 --------------------------------- *)
NewlinesOf(text) == {i \in 1..Len(text) : SubSeq(text, i, i) = "\n"}

RECURSIVE SplitLines(_)
SplitLines(text) ==
    IF NewlinesOf(text) = {} THEN <<text>>
    ELSE LET first == CHOOSE i \in NewlinesOf(text) : \A j \in NewlinesOf(text) : i <= j
         IN  <<SubSeq(text, 1, first - 1)>> \o SplitLines(SubSeq(text, first + 1, Len(text)))

Contains(text, part) ==
    \E i \in 0..(Len(text) - Len(part)) : SubSeq(text, i + 1, i + Len(part)) = part

ListsWithMatches == SelectSeq(triggered, LAMBDA pair : pair[2] # <<>>)

\* C13: the filter summary of an alert has one line per filter list that had
\* matches (a single line when one rule of one list matched, however many
\* lists are subscribed), and each line names its filter list and the id and
\* content of each of its matched rules.
C13_FilterSummary ==
    alerts # <<>>
        => LET lines == SplitLines(alerts[1].filters)
           IN  /\ Len(lines) = Len(ListsWithMatches)
               /\ \A i \in 1..Len(ListsWithMatches) :
                     /\ Contains(lines[i], title(ListsWithMatches[i][1]))
                     /\ \A k \in 1..Len(ListsWithMatches[i][2]) :
                           /\ Contains(lines[i], "#" \o ToString(ListsWithMatches[i][2][k].id))
                           /\ Contains(lines[i], ListsWithMatches[i][2][k].content)

(* ---------------------------------- C14 --------------------------------- *)
\* C14: the description of every alert is its composed body unchanged when
\* the body has at most 4000 characters, the first 4000 characters of the
\* body followed by " [...]" when it has more, and never has more than 4000
\* characters plus the marker.
C14_Truncation ==
    \A i \in 1..Len(alerts) :
        LET body == alerts[i].embed_content
            description == alerts[i].description
        IN  /\ Len(body) <= 4000 => description = body
            /\ Len(body) > 4000 => description = SubSeq(body, 1, 4000) \o " [...]"
            /\ Len(description) <= 4000 + Len(" [...]")

C14_Witness ==
    /\ alerts # <<>>
    /\ Len(alerts[1].embed_content) = 4000 + MaxDelta
    /\ Len(alerts[1].description) = 4000 + Len(" [...]")

(* ---------------------------------- C15 --------------------------------- *)
Bulleted(m) == IF Len(m) >= 1 /\ SubSeq(m, 1, 1) = Bullet THEN m ELSE Bullet \o " " \o m

\* C15: _merge_messages of two strings is empty when both are empty, the
\* other one when exactly one is empty, the message once when they are
\* identical, and otherwise the first then the second, each with a bullet
\* before it unless it starts with one, with a blank line between them.
C15_MergeMessages ==
    merged_message # NotMerged
        => LET m1 == message1.s
               m2 == message2.s
           IN  /\ merged_message.t = "str"
               /\ (m1 = "" /\ m2 = "") => merged_message.s = ""
               /\ (m1 = "" /\ m2 # "") => merged_message.s = m2
               /\ (m1 # "" /\ m2 = "") => merged_message.s = m1
               /\ (m1 # "" /\ m1 = m2) => merged_message.s = m1
               /\ (m1 # "" /\ m2 # "" /\ m1 # m2)
                     => merged_message.s = Bulleted(m1) \o "\n\n" \o Bulleted(m2)
               /\ (m1 = "foo" /\ m2 = "") => merged_message.s = "foo"
               /\ (m1 = "foo" /\ m2 = "foo") => merged_message.s = "foo"
               /\ (m1 = "foo" /\ m2 = "bar")
                     => merged_message.s = Bullet \o " foo\n\n" \o Bullet \o " bar"

C15_Witness ==
    /\ message1.s = Bullet \o " foo"
    /\ message2.s = "bar"
    /\ merged_message = PyStr(Bullet \o " foo\n\n" \o Bullet \o " bar")

(* ---------------------------------- C16 --------------------------------- *)
\* The embedded superstar the merge of two entries is to carry.
ExpectedSuperstar(a, b) ==
    IF a._superstar.present /\ b._superstar.present
    THEN SuperstarTuple(_merge_messages(a._superstar.reason, b._superstar.reason),
                        _merge_durations(a._superstar.duration, b._superstar.duration))
    ELSE IF a._superstar.present THEN a._superstar
    ELSE b._superstar

\* C16: the merge of two entries with different primary infractions, neither
\* NONE nor SUPERSTAR, carries the embedded superstars of the operands merged
\* by the message and duration rules when both have one, the one present when
\* one has one, and none otherwise.
C16_EmbeddedSuperstar ==
    (/\ mpc = "combined"
     /\ opA.infraction_type \notin {"NONE", "SUPERSTAR"}
     /\ opB.infraction_type \notin {"NONE", "SUPERSTAR"}
     /\ opA.infraction_type # opB.infraction_type)
        => /\ merged.ab.exc = ""
           /\ merged.ab.val._superstar = ExpectedSuperstar(opA, opB)

(* ---------------------------------- C17 --------------------------------- *)
\* What a | b returned, r, is b itself when a is NONE, a itself when b is
\* NONE, and otherwise, when it returned, a new instance.
ResultIdentity(a, b, r) ==
    IF a.infraction_type = "NONE" THEN r.exc = "" /\ r.is = "other" /\ r.val = b
    ELSE IF b.infraction_type = "NONE" THEN r.exc = "" /\ r.is = "self" /\ r.val = a
    ELSE r.exc = "" => r.is = "new"

\* C17 as stated: the merge leaves every field of both operands unchanged and
\* its result is an instance distinct from both operands.
C17_Original ==
    [][/\ opA' = opA
       /\ opB' = opB
       /\ mpc' = "combined"
             => /\ merged'.ab.is \notin {"self", "other"}
                /\ merged'.ba.is \notin {"self", "other"}]_vars

\* C17, amended: the merge leaves every field of both operands unchanged;
\* its result is the other operand itself when one operand is NONE, and a new
\* instance when neither is and the merge returns.
C17_OperandsKept ==
    [][/\ opA' = opA
       /\ opB' = opB
       /\ mpc' = "combined"
             => /\ ResultIdentity(opA, opB, merged'.ab)
                /\ ResultIdentity(opB, opA, merged'.ba)]_vars

C17_Witness ==
    /\ mpc = "combined"
    /\ opA.infraction_type = "NONE"
    /\ opB.infraction_type = "WARNING"
    /\ merged.ab.is = "other"
    /\ merged.ba.is = "self"
    /\ merged.ab.val = opB

(* ---------------------------------- C18 --------------------------------- *)
\* The step of action a request belongs to; the DM to the author and the
\* post in the channel that replaces a rejected DM are the notification.
StepOf(request) ==
    IF request.op \in {"author.send", "channel.send"} THEN "notified"
    ELSE IF request.name = "superstar" THEN "superstarred"
    ELSE Lower(request.name)

\* The steps whose request went through.
StepsPerformed ==
    LET steps == SelectSeq(effects, LAMBDA request : request.outcome = "sent")
    IN  [i \in 1..Len(steps) |-> StepOf(steps[i])]

IsPrefix(s, t) == Len(s) <= Len(t) /\ SubSeq(t, 1, Len(s)) = s

\* C18: action requests the notification, then the embedded superstar, then
\* the primary infraction, each at most once and only when the applied entry
\* has it, and the action descriptions of the context are, in that order,
\* "notified", "superstarred" and the lowercase name of the infraction for
\* exactly the steps performed; a request that did not go through is the
\* last one made, but for the rejected DM, which the post in the channel
\* follows.
C18_ApplyOrder ==
    /\ StepsPerformed = ctx.action_descriptions
    /\ IsPrefix(ctx.action_descriptions, DescriptionsOf(result_actions))
    /\ pc = "alert" => ctx.action_descriptions = DescriptionsOf(result_actions)
    /\ \A i \in 1..Len(effects) :
          /\ effects[i].op = "channel.send"
                => i > 1 /\ effects[i - 1].op = "author.send"
                         /\ effects[i - 1].outcome = "Forbidden"
          /\ effects[i].outcome = "Forbidden"
                => IF i = Len(effects) THEN pc = "notify_fallback"
                   ELSE effects[i + 1].op = "channel.send"
          /\ effects[i].outcome = "HTTPException"
                => i = Len(effects) /\ pc = "raised" /\ exception.at = "notify"

C18_Witness ==
    /\ pc = "alert"
    /\ Len(effects) = 3
    /\ effects[1].op = "author.send"
    /\ effects[2].name = "superstar"
    /\ effects[3].name = "WARNING"
    /\ ctx.action_descriptions = <<"notified", "superstarred", "warning">>

(* ---------------------------------- C19 --------------------------------- *)
\* C19: action completes without error when the duration of the primary
\* infraction or of the embedded superstar is absent, and an entry whose
\* infraction is not NONE and has no duration has, once applied, its
\* infraction requested without expiry and its description recorded.
C19_AbsentDurationPermanent ==
    /\ exception.at \notin {"superstar", "infraction"}
    /\ (/\ pc = "alert"
        /\ result_actions.infraction_type # "NONE"
        /\ result_actions.infraction_duration = PyNone)
          => /\ \E i \in 1..Len(effects) :
                   /\ effects[i].name = result_actions.infraction_type
                   /\ effects[i].duration = PyNone
             /\ InList(Lower(result_actions.infraction_type), ctx.action_descriptions)

(* ---------------------------------- C20 --------------------------------- *)
NoDuplicates(list) == \A i, j \in 1..Len(list) : list[i] = list[j] => i = j

\* C20: no filter list is twice in the subscription list of an event;
\* subscribing a filter list to events appends it to the list of each of
\* these events that does not hold it yet and changes nothing else; and a
\* dispatch calls triggers_for on the lists subscribed to MESSAGE in their
\* order, once each, on all of them when its loop has run to the end.
C20_Subscriptions ==
    /\ \A event \in Events : NoDuplicates(_subscriptions[event])
    /\ \A filter_list \in FilterListTypes, events \in SeqsUpTo(Events, 2), event \in Events :
          SubscribeLoop(_subscriptions, filter_list, events)[event]
              = IF InList(event, events) /\ ~InList(filter_list, _subscriptions[event])
                THEN Append(_subscriptions[event], filter_list)
                ELSE _subscriptions[event]
    /\ IsPrefix(TriggeredLists, _subscriptions["MESSAGE"])
    /\ NoDuplicates(TriggeredLists)
    /\ pc = "reduce" => TriggeredLists = _subscriptions["MESSAGE"]

C20_Witness ==
    /\ pc = "reduce"
    /\ _subscriptions["MESSAGE"] = <<"domain", "token">>
    /\ _subscriptions["MESSAGE_EDIT"] = <<"token">>
    /\ TriggeredLists = <<"domain", "token">>

(* ---------------------------------- C21 --------------------------------- *)
\* The seconds from the last message to the archive timestamp are within one
\* minute of the auto-archive duration.
WithinAMinute(thread) == abs(thread.gap - thread.auto_archive_duration * 60) <= 60

\* C21: after unarchive_if_not_manually_archived on an archived thread, the
\* thread is unarchived and the bump list holds its id as before when the
\* time from its last message to its archive timestamp is within one minute
\* of its auto-archive duration, and is archived and out of the bump list
\* when it is not; a thread that is not archived is left as it is and keeps
\* its place.
C21_UnarchiveDecision ==
    /\ (unarchive_call # NoCall /\ unarchive_call.thread.has_message)
          => LET thread_id == unarchive_call.thread_id
                 thread == unarchive_call.thread
             IN  /\ (thread.archived /\ WithinAMinute(thread))
                       => /\ ~threads[thread_id].archived
                          /\ InList(thread_id, threads_to_bump) = unarchive_call.listed
                 /\ (thread.archived /\ ~WithinAMinute(thread))
                       => threads[thread_id].archived /\ ~InList(thread_id, threads_to_bump)
    /\ \A thread \in LiveThreads :
          ~thread.archived
              => unarchive_if_not_manually_archived(thread)
                    = [thread |-> thread, deleted |-> FALSE, exc |-> ""]

(* ---------------------------------- C22 --------------------------------- *)
\* C22: ensure_bumped_threads_are_active visits every id of the bump list and
\* ends without error: an id whose thread was deleted is removed from the
\* bump list and the loop goes on to the ids that remain, and a thread in the
\* cache that is not archived is left as it is.
C22_EnsureCompletes ==
    /\ (bump_thread_id # 0 /\ ~threads[bump_thread_id].exists /\ pending # <<>>)
          => bump_pc = "loop" /\ ~InList(bump_thread_id, threads_to_bump)
    /\ (bump_pc = "raised" /\ unarchive_call = NoCall) => threads[bump_thread_id].exists
    /\ bump_pc = "done" => pending = <<>>

====
